---- MODULE Spec2Model ----
(***************************************************************************)
(* A model of OpenFermion-Cirq's variational ansatz base class             *)
(* (openfermioncirq/variational/ansatz.py) and of the Bogoliubov-transform *)
(* circuit synthesizer as exercised by                                     *)
(* openfermioncirq/primitives/bogoliubov_transform_test.py.                *)
(***************************************************************************)
EXTENDS Integers, Sequences, FiniteSets, TLC

VARIABLES
    \* ---- VariationalAnsatz instance ----
    apc,        \* position of __init__: "allocated", "populated", "constructed"
    names,      \* what the subclass's param_names() returns
    params,     \* self.params (Missing until assigned)
    circuit,    \* self.circuit (Missing until assigned)
    seen,       \* self.params as generate_circuit() found it when called
    ctorCalls,  \* the subclass methods __init__ has called, in order
    ret,        \* the last method call made on the constructed ansatz
    \* ---- bogoliubov_transform invocations ----
    gens,       \* the generators bogoliubov_transform has returned so far
    \* ---- a run of one function of bogoliubov_transform_test.py ----
    tpc,        \* "setup" before the test body runs, "ran" after
    tin,        \* the inputs the test draws
    tout        \* the circuits and states the test body computes

ansatzVars == <<apc, names, params, circuit, seen, ctorCalls, ret>>
testVars == <<tpc, tin, tout>>
vars == <<apc, names, params, circuit, seen, ctorCalls, ret, gens, tpc, tin, tout>>

(***************************************************************************)
(* Bounds of the model.                                                    *)
(***************************************************************************)
MaxParams == 2
MaxValues == 3
MaxValue == 1
MaxModes == 3
MaxGens == 2
MaxGenModes == 2

Min(a, b) == IF a < b THEN a ELSE b
Range(s) == {s[i] : i \in 1..Len(s)}
SeqsUpTo(S, n) == UNION {[1..m -> S] : m \in 0..n}

(***************************************************************************)
(* VariationalAnsatz (variational/ansatz.py)                               *)
(***************************************************************************)
\* An attribute that has not been assigned yet, and one that holds value v.
Missing == [set |-> FALSE, val |-> <<>>]
Held(v) == [set |-> TRUE, val |-> v]
None == "None"
NameSet == {"a", "b", "c"}
ParamValueSet == 0..MaxValue

\* cirq.Symbol(name): a named placeholder.
Symbol(n) == [symbol |-> n]

EmptyDict == [k \in {} |-> 0]
Put(d, k, v) == [x \in (DOMAIN d) \cup {k} |-> IF x = k THEN v ELSE d[x]]

\* {param_name: cirq.Symbol(param_name) for param_name in self.param_names()}
RECURSIVE SymbolDict(_, _)
SymbolDict(ns, i) ==
    IF i = 0 THEN EmptyDict
    ELSE Put(SymbolDict(ns, i - 1), ns[i], Symbol(ns[i]))

\* dict(zip(names, values)): pairs up to the shorter length, inserted in order.
ZipDict_FirstWins(ns, vs, i) ==
    [k \in {ns[j] : j \in 1..i} |->
        vs[CHOOSE j \in 1..i : ns[j] = k /\ \A l \in 1..(j - 1) : ns[l] # k]]
RECURSIVE ZipDict(_, _, _)
ZipDict(ns, vs, i) ==
    IF i = 0 THEN EmptyDict
    ELSE Put(ZipDict(ns, vs, i - 1), ns[i], vs[i])

\* numpy.zeros(k)
Zeros(k) == [i \in 1..k |-> 0]

\* A subclass's generate_circuit(): it looks up self.params[name] for each of
\* its parameter names and places the Symbols in the circuit.
GenerateCircuit(p, ns) ==
    IF ~p.set THEN [error |-> "AttributeError", ops |-> <<>>]
    ELSE IF \E i \in 1..Len(ns) : ns[i] \notin DOMAIN p.val
         THEN [error |-> "KeyError", ops |-> <<>>]
    ELSE [error |-> None, ops |-> [i \in 1..Len(ns) |-> p.val[ns[i]]]]

\* __init__, line 43-44: self.params = {...  for param_name in self.param_names()}
CtorPopulate ==
    /\ apc = "allocated"
    /\ params' = Held(SymbolDict(names, Len(names)))
    /\ ctorCalls' = Append(ctorCalls, "param_names")
    /\ apc' = "populated"
    /\ UNCHANGED <<names, circuit, seen, ret>>
    /\ UNCHANGED <<gens, testVars>>

\* __init__, line 46: self.circuit = self.generate_circuit()
CtorGenerate_BeforePopulate ==
    /\ apc \in {"allocated", "populated"}
    /\ "generate_circuit" \notin Range(ctorCalls)
    /\ seen' = params
    /\ circuit' = Held(GenerateCircuit(params, names))
    /\ ctorCalls' = Append(ctorCalls, "generate_circuit")
    /\ apc' = IF apc = "populated" THEN "constructed" ELSE apc
    /\ UNCHANGED <<names, params, ret>>
    /\ UNCHANGED <<gens, testVars>>
CtorGenerate ==
    /\ apc = "populated"
    /\ seen' = params
    /\ circuit' = Held(GenerateCircuit(params, names))
    /\ ctorCalls' = Append(ctorCalls, "generate_circuit")
    /\ apc' = "constructed"
    /\ UNCHANGED <<names, params, ret>>
    /\ UNCHANGED <<gens, testVars>>

\* param_names(): supplied by the subclass.
ParamNames ==
    /\ apc = "constructed"
    /\ ret' = [op |-> "param_names", arg |-> None, val |-> names]
    /\ UNCHANGED <<apc, names, params, circuit, seen, ctorCalls>>
    /\ UNCHANGED <<gens, testVars>>

\* param_bounds(): return None
ParamBounds ==
    /\ apc = "constructed"
    /\ ret' = [op |-> "param_bounds", arg |-> None, val |-> None]
    /\ UNCHANGED <<apc, names, params, circuit, seen, ctorCalls>>
    /\ UNCHANGED <<gens, testVars>>

\* param_resolver(param_values):
\*     cirq.ParamResolver(dict(zip(self.param_names(), param_values)))
ParamResolver_Rebinding(values) ==
    /\ apc = "constructed"
    /\ ret' = [op |-> "param_resolver", arg |-> values,
               val |-> ZipDict(names, values, Min(Len(names), Len(values)))]
    /\ params' = Held(ZipDict(names, values, Min(Len(names), Len(values))))
    /\ UNCHANGED <<apc, names, circuit, seen, ctorCalls>>
    /\ UNCHANGED <<gens, testVars>>
ParamResolver(values) ==
    /\ apc = "constructed"
    /\ ret' = [op |-> "param_resolver", arg |-> values,
               val |-> ZipDict(names, values, Min(Len(names), Len(values)))]
    /\ UNCHANGED <<apc, names, params, circuit, seen, ctorCalls>>
    /\ UNCHANGED <<gens, testVars>>

\* default_initial_params(): numpy.zeros(len(self.params))
DefaultInitialParams_LenNames ==
    /\ apc = "constructed"
    /\ ret' = [op |-> "default_initial_params", arg |-> None,
               val |-> Zeros(Len(names))]
    /\ UNCHANGED <<apc, names, params, circuit, seen, ctorCalls>>
    /\ UNCHANGED <<gens, testVars>>
DefaultInitialParams ==
    /\ apc = "constructed"
    /\ ret' = [op |-> "default_initial_params", arg |-> None,
               val |-> Zeros(Cardinality(DOMAIN params.val))]
    /\ UNCHANGED <<apc, names, params, circuit, seen, ctorCalls>>
    /\ UNCHANGED <<gens, testVars>>

NoGens == gens = <<>>
NoTest == tpc = "idle" /\ tin = [test |-> None] /\ tout = [test |-> None]

AnsatzInit ==
    /\ NoGens /\ NoTest
    /\ apc = "allocated"
    /\ names \in SeqsUpTo(NameSet, MaxParams)
    /\ params = Missing
    /\ circuit = Missing
    /\ seen = Missing
    /\ ctorCalls = <<>>
    /\ ret = [op |-> None, arg |-> None, val |-> None]

AnsatzNext ==
    \/ CtorPopulate
    \/ CtorGenerate
    \/ ParamNames
    \/ ParamBounds
    \/ \E values \in SeqsUpTo(ParamValueSet, MaxValues) : ParamResolver(values)
    \/ DefaultInitialParams

SpecAnsatz == AnsatzInit /\ [][AnsatzNext]_vars

(***************************************************************************)
(* Matrices over the Gaussian integers.  A complex number is <<re, im>>; a *)
(* matrix is a function from row index 0..r-1 to rows, a row a function    *)
(* from column index 0..c-1 to entries (numpy indexing).                   *)
(***************************************************************************)
Zero == <<0, 0>>
\* The fourth roots of unity: Unit(k) = i^k.
Unit(k) == CASE k = 0 -> <<1, 0>> [] k = 1 -> <<0, 1>>
             [] k = 2 -> <<-1, 0>> [] k = 3 -> <<0, -1>>
CAdd(a, b) == <<a[1] + b[1], a[2] + b[2]>>
CMul(a, b) == <<a[1] * b[1] - a[2] * b[2], a[1] * b[2] + a[2] * b[1]>>
CNeg(a) == <<0 - a[1], 0 - a[2]>>
CConj(a) == <<a[1], 0 - a[2]>>
\* numpy.angle of an entry, in quarter turns (numpy.angle(0) is 0).
PhaseOf(z) == IF \E k \in 0..3 : Unit(k) = z THEN CHOOSE k \in 0..3 : Unit(k) = z ELSE 0

Rows(M) == Cardinality(DOMAIN M)
Cols(M) == Cardinality(DOMAIN M[0])
\* transformation_matrix.shape
Shape(M) == <<Rows(M), Cols(M)>>
\* numpy.zeros((r, c))
ZeroMatrix(r, c) == [p \in 0..(r - 1) |-> [q \in 0..(c - 1) |-> Zero]]

\* u.dot(v)
RECURSIVE DotSum(_, _, _, _, _)
DotSum(A, B, p, q, k) ==
    IF k < 0 THEN Zero
    ELSE CAdd(DotSum(A, B, p, q, k - 1), CMul(A[p][k], B[k][q]))
Dot_Reversed(A, B) ==
    [p \in DOMAIN B |-> [q \in DOMAIN A[0] |-> DotSum(B, A, p, q, Cols(B) - 1)]]
Dot(A, B) ==
    [p \in DOMAIN A |-> [q \in DOMAIN B[0] |-> DotSum(A, B, p, q, Cols(A) - 1)]]

\* m.T and m.T.conj()
Transpose(M) == [q \in DOMAIN M[0] |-> [p \in DOMAIN M |-> M[p][q]]]
ConjTranspose(M) == [q \in DOMAIN M[0] |-> [p \in DOMAIN M |-> CConj(M[p][q])]]
\* transformation_matrix[:, :n] and transformation_matrix[:, n:]
LeftBlock(M, n) == [p \in DOMAIN M |-> [q \in 0..(n - 1) |-> M[p][q]]]
RightBlock(M, n) == [p \in DOMAIN M |-> [q \in 0..(Cols(M) - n - 1) |-> M[p][q + n]]]
\* numpy.block([A, B])
Block(A, B) ==
    [p \in DOMAIN A |-> [q \in 0..(Cols(A) + Cols(B) - 1) |->
        IF q < Cols(A) THEN A[p][q] ELSE B[p][q - Cols(A)]]]

\* The daggered transformation matrix of the inverse-is-dagger tests.
Daggered_ConjRight(M, n) ==
    IF Shape(M) = <<n, n>> THEN ConjTranspose(M)
    ELSE Block(ConjTranspose(LeftBlock(M, n)), ConjTranspose(RightBlock(M, n)))
Daggered(M, n) ==
    IF Shape(M) = <<n, n>> THEN ConjTranspose(M)
    ELSE Block(ConjTranspose(LeftBlock(M, n)), Transpose(RightBlock(M, n)))

(***************************************************************************)
(* The transformation matrices the tests draw: unitaries and Bogoliubov    *)
(* matrices with one entry of modulus 1 in each row, i.e. phased           *)
(* permutations of the modes, of which any subset is exchanged for holes.  *)
(***************************************************************************)
Modes(n) == 0..(n - 1)
Perms(n) == {f \in [Modes(n) -> Modes(n)] : \A a, b \in Modes(n) : f[a] = f[b] => a = b}
UnitaryMatricesOver(n, K) ==
    {[p \in Modes(n) |-> [q \in Modes(n) |->
        IF q = f[p] THEN Unit(k[p]) ELSE Zero]] :
     f \in Perms(n), k \in [Modes(n) -> K]}
BogoliubovMatricesOver(n, K) ==
    {[p \in Modes(n) |-> [q \in 0..(2 * n - 1) |->
        IF q = f[p] + (IF h[p] THEN n ELSE 0) THEN Unit(k[p]) ELSE Zero]] :
     f \in Perms(n), k \in [Modes(n) -> K], h \in [Modes(n) -> BOOLEAN]}
UnitaryMatrices(n) == UnitaryMatricesOver(n, 0..3)
BogoliubovMatrices(n) == BogoliubovMatricesOver(n, 0..3)
ValidMatrices(n) == UnitaryMatrices(n) \cup BogoliubovMatrices(n)

(***************************************************************************)
(* Gates and their action on occupation-number basis states.  A basis      *)
(* state is the set of occupied modes with a phase i^ph.                   *)
(***************************************************************************)
\* A Givens rotation by a quarter turn (s = 1) or its inverse (s = -1) on the
\* adjacent modes j, j+1; a phase i^s on mode j; a particle-hole exchange of
\* mode j.
Hop(j, s) == [g |-> "hop", j |-> j, s |-> s]
Phase(j, k) == [g |-> "phase", j |-> j, s |-> k]
ParticleHole(j) == [g |-> "ph", j |-> j, s |-> 0]

Ket(occ, ph) == [occ |-> occ, ph |-> ph]
ApplyGate(gate, st) ==
    LET j == gate.j
        lo == j \in st.occ
        hi == (j + 1) \in st.occ
    IN  CASE gate.g = "hop" ->
              IF lo /\ ~hi
              THEN Ket((st.occ \ {j}) \cup {j + 1},
                       IF gate.s = 1 THEN st.ph ELSE (st.ph + 2) % 4)
              ELSE IF hi /\ ~lo
              THEN Ket((st.occ \ {j + 1}) \cup {j},
                       IF gate.s = 1 THEN (st.ph + 2) % 4 ELSE st.ph)
              ELSE st
          [] gate.g = "phase" ->
              IF lo THEN Ket(st.occ, (st.ph + gate.s) % 4) ELSE st
          [] gate.g = "ph" ->
              IF lo THEN Ket(st.occ \ {j}, st.ph) ELSE Ket(st.occ \cup {j}, st.ph)

RECURSIVE RunFrom(_, _, _)
RunFrom(gates, i, st) ==
    IF i > Len(gates) THEN st ELSE RunFrom(gates, i + 1, ApplyGate(gates[i], st))
\* simulator.simulate(circuit, initial_state=...).final_state on a basis state
Run(gates, st) == RunFrom(gates, 1, st)

\* circuit.to_unitary_matrix(): the image of every basis state.
CircuitUnitary(n, gates) ==
    [S \in SUBSET Modes(n) |-> Run(gates, Ket(S, 0))]
\* cirq.testing.assert_allclose_up_to_global_phase
UpToGlobalPhase(A, B) ==
    /\ DOMAIN A = DOMAIN B
    /\ \E k \in 0..3 : \A S \in DOMAIN A :
          A[S].occ = B[S].occ /\ A[S].ph = (B[S].ph + k) % 4

Reverse(s) == [i \in 1..Len(s) |-> s[Len(s) + 1 - i]]
InverseGate(gate) ==
    CASE gate.g = "hop" -> Hop(gate.j, 0 - gate.s)
      [] gate.g = "phase" -> Phase(gate.j, (4 - gate.s) % 4)
      [] gate.g = "ph" -> gate
\* cirq.inverse(op_tree): the operations in reverse order, each inverted.
InverseOps(gates) == [i \in 1..Len(gates) |-> InverseGate(gates[Len(gates) + 1 - i])]

(***************************************************************************)
(* bogoliubov_transform: the decomposition of the transformation matrix    *)
(* into elementary rotations by sequential elimination.                    *)
(***************************************************************************)
SetMax(S) == CHOOSE x \in S : \A y \in S : y <= x

\* The matrix after the columns j, j+1 of each block are rotated by the inverse
\* of Hop(j, 1).
HopColumns(M, j, n) ==
    [p \in DOMAIN M |-> [q \in DOMAIN M[p] |->
        LET b == IF q >= n THEN n ELSE 0
            c == q - b
        IN  IF c = j THEN M[p][b + j + 1]
            ELSE IF c = j + 1 THEN CNeg(M[p][b + j])
            ELSE M[p][q]]]
\* The matrix after the creation and annihilation columns of mode n-1 are
\* exchanged.
ParticleHoleColumns(M, n) ==
    [p \in DOMAIN M |-> [q \in DOMAIN M[p] |->
        IF q = n - 1 THEN M[p][2 * n - 1]
        ELSE IF q = 2 * n - 1 THEN M[p][n - 1]
        ELSE M[p][q]]]

Step(M, ops) == [M |-> M, ops |-> ops]

\* Zero the annihilation (right) block of an n x 2n matrix: the last mode that
\* still has an entry there is rotated to the end and exchanged.
RECURSIVE ClearRightBlock(_, _, _)
ClearRightBlock(M, n, ops) ==
    LET holes == {q \in Modes(n) : \E p \in DOMAIN M : M[p][n + q] # Zero} IN
    IF holes = {} THEN Step(M, ops)
    ELSE LET q == SetMax(holes) IN
         IF q = n - 1
         THEN ClearRightBlock(ParticleHoleColumns(M, n), n,
                              Append(ops, ParticleHole(n - 1)))
         ELSE ClearRightBlock(HopColumns(M, q, n), n, Append(ops, Hop(q, 1)))

\* Zero the entries right of the diagonal, row by row: the last nonzero entry
\* of row t is rotated into the column to its left until it is on the diagonal.
RECURSIVE ClearAboveDiagonal(_, _, _, _)
ClearAboveDiagonal(M, n, t, ops) ==
    IF t >= n - 1 THEN Step(M, ops)
    ELSE LET right == {q \in Modes(n) : q > t /\ M[t][q] # Zero} IN
         IF right = {} THEN ClearAboveDiagonal(M, n, t + 1, ops)
         ELSE LET c == SetMax(right) IN
              ClearAboveDiagonal(HopColumns(M, c - 1, n), n, t,
                                 Append(ops, Hop(c - 1, 1)))

\* The phases left on the diagonal, as single-mode phase gates.
RECURSIVE DiagonalPhases(_, _)
DiagonalPhases(M, j) ==
    IF j < 0 THEN <<>>
    ELSE LET k == PhaseOf(M[j][j]) IN
         DiagonalPhases(M, j - 1) \o (IF k = 0 THEN <<>> ELSE <<Phase(j, k)>>)

\* The general circuit: W = D G_k ... G_1, where right-multiplying W by the
\* inverses of G_1, ..., G_k in turn leaves the diagonal D; the gates of D come
\* first, then G_k, ..., G_1.
GeneralGates(n, M) ==
    LET a == IF Shape(M) = <<n, n>> THEN Step(M, <<>>)
             ELSE ClearRightBlock(M, n, <<>>)
        b == ClearAboveDiagonal(a.M, n, 0, a.ops)
    IN  DiagonalPhases(b.M, n - 1) \o Reverse(b.ops)

\* A rotation of two unoccupied modes, or a phase on an unoccupied mode, does
\* nothing to a basis state and is left out of the specialised circuit.
ActsTrivially_LowModeOnly(gate, occ) ==
    \/ gate.g = "hop" /\ gate.j \notin occ
    \/ gate.g = "phase" /\ gate.j \notin occ
ActsTrivially(gate, occ) ==
    \/ gate.g = "hop" /\ gate.j \notin occ /\ (gate.j + 1) \notin occ
    \/ gate.g = "phase" /\ gate.j \notin occ

\* The circuit specialised to a basis state: the general circuit without the
\* gates that act trivially on the state they meet.
RECURSIVE SpecialisedFrom(_, _, _)
SpecialisedFrom(gates, i, st) ==
    IF i > Len(gates) THEN <<>>
    ELSE IF ActsTrivially(gates[i], st.occ) THEN SpecialisedFrom(gates, i + 1, st)
    ELSE <<gates[i]>> \o SpecialisedFrom(gates, i + 1, ApplyGate(gates[i], st))

RECURSIVE Pow2(_)
Pow2(k) == IF k <= 0 THEN 1 ELSE 2 * Pow2(k - 1)

\* The modes a basis-state integer occupies: mode i is bit n-1-i.
OccupiedModes(n, k) == {i \in Modes(n) : (k \div Pow2(n - 1 - i)) % 2 = 1}

\* initial_state: absent, an integer, or a collection of occupied modes.
NoState == [kind |-> "none", int |-> 0, list |-> <<>>]
IntState(k) == [kind |-> "int", int |-> k, list |-> <<>>]
ListState(l) == [kind |-> "list", int |-> 0, list |-> l]

\* The integer encoding of a collection of occupied modes: bit i (counted from
\* the most significant of n) is the occupation of mode i.
RECURSIVE BitsOf(_, _, _)
BitsOf(n, occ, i) ==
    IF i < 0 THEN 0
    ELSE BitsOf(n, occ, i - 1) + (IF i \in occ THEN Pow2(n - 1 - i) ELSE 0)
InitialStateInt(n, init) ==
    IF init.kind = "list" THEN BitsOf(n, Range(init.list), n - 1) ELSE init.int

\* The shape check of bogoliubov_transform.
ShapeOk(n, M) == Shape(M) = <<n, n>> \/ Shape(M) = <<n, 2 * n>>

\* The gate sequence bogoliubov_transform produces for valid inputs.
BogoliubovGates(n, M, init) ==
    IF init.kind = "none" THEN GeneralGates(n, M)
    ELSE SpecialisedFrom(GeneralGates(n, M), 1,
                         Ket(OccupiedModes(n, InitialStateInt(n, init)), 0))

(***************************************************************************)
(* The lazily produced sequence: bogoliubov_transform(...) returns a       *)
(* generator; nothing of its body runs until the first element is pulled.  *)
(***************************************************************************)
NewGen(n, M, init) ==
    [n |-> n, M |-> M, init |-> init, st |-> "created", pulled |-> FALSE,
     pending |-> <<>>, yielded |-> <<>>, err |-> None]

\* next(generator)
PullStep_CheckAtEnd(g) ==
    LET todo == IF g.st # "created" THEN g.pending
                ELSE IF ShapeOk(g.n, g.M) THEN BogoliubovGates(g.n, g.M, g.init)
                ELSE IF Rows(g.M) = g.n /\ Cols(g.M) >= g.n
                THEN GeneralGates(g.n, LeftBlock(g.M, g.n))
                ELSE <<>>
    IN  IF todo = <<>>
        THEN IF ShapeOk(g.n, g.M)
             THEN [g EXCEPT !.st = "done", !.pulled = TRUE, !.pending = <<>>]
             ELSE [g EXCEPT !.st = "raised", !.pulled = TRUE, !.err = "ValueError"]
        ELSE [g EXCEPT !.st = "suspended", !.pulled = TRUE, !.pending = Tail(todo),
                       !.yielded = Append(g.yielded, Head(todo))]
PullStep(g) ==
    IF g.st = "created" /\ ~ShapeOk(g.n, g.M)
    THEN [g EXCEPT !.st = "raised", !.pulled = TRUE, !.err = "ValueError"]
    ELSE LET todo == IF g.st = "created"
                     THEN BogoliubovGates(g.n, g.M, g.init) ELSE g.pending
         IN  IF todo = <<>>
             THEN [g EXCEPT !.st = "done", !.pulled = TRUE, !.pending = <<>>]
             ELSE [g EXCEPT !.st = "suspended", !.pulled = TRUE,
                            !.pending = Tail(todo),
                            !.yielded = Append(g.yielded, Head(todo))]

Finished(g) == g.st \in {"done", "raised"}

\* cirq.Circuit.from_ops(generator): pull until the generator is exhausted.
RECURSIVE Drain(_)
Drain(g) == IF Finished(g) THEN g ELSE Drain(PullStep(g))
FromOps(n, M, init) == Drain(NewGen(n, M, init)).yielded

(***************************************************************************)
(* Invocations of bogoliubov_transform and pulls from the generators, in   *)
(* any interleaving.                                                       *)
(***************************************************************************)
\* Matrices of a wrong shape: a valid matrix with a column of zeros appended,
\* and numpy.zeros of the other shapes.
BadShapeMatrices(n, valid) ==
    {M \in {Block(V, ZeroMatrix(n, 1)) : V \in valid} : ~ShapeOk(n, M)}
    \cup {ZeroMatrix(r, c) : r \in {n, n + 1}, c \in (1..(2 * n + 1)) \ {n, 2 * n}}
StrictlyIncreasing(l) == \A i \in 1..(Len(l) - 1) : l[i] < l[i + 1]
GenMatrices(n) ==
    LET valid == UnitaryMatricesOver(n, {0}) \cup BogoliubovMatricesOver(n, {0})
    IN  valid \cup BadShapeMatrices(n, valid)
GenStates(n) ==
    {NoState} \cup {IntState(k) : k \in 0..(Pow2(n) - 1)}
    \cup {ListState(l) : l \in {x \in SeqsUpTo(Modes(n), n) : StrictlyIncreasing(x)}}

AnsatzIdle ==
    /\ apc = "idle" /\ names = <<>> /\ params = Missing /\ circuit = Missing
    /\ seen = Missing /\ ctorCalls = <<>>
    /\ ret = [op |-> None, arg |-> None, val |-> None]

\* bogoliubov_transform(qubits, transformation_matrix, initial_state)
Invoke(n, M, init) ==
    /\ Len(gens) < MaxGens
    /\ gens' = Append(gens, NewGen(n, M, init))
    /\ UNCHANGED <<ansatzVars, testVars>>

\* next(...) on the i-th generator
Pull_SharedWorkList(i) ==
    /\ i \in 1..Len(gens)
    /\ ~Finished(gens[i])
    /\ LET mine == IF gens[i].st = "suspended"
                   THEN [gens[i] EXCEPT !.pending = gens[1].pending]
                   ELSE gens[i]
           g == PullStep(mine)
       IN  gens' = [k \in 1..Len(gens) |->
                       IF k = i THEN g
                       ELSE IF k = 1 THEN [gens[1] EXCEPT !.pending = g.pending]
                       ELSE gens[k]]
    /\ UNCHANGED <<ansatzVars, testVars>>
Pull(i) ==
    /\ i \in 1..Len(gens)
    /\ ~Finished(gens[i])
    /\ gens' = [gens EXCEPT ![i] = PullStep(gens[i])]
    /\ UNCHANGED <<ansatzVars, testVars>>

GenInit == AnsatzIdle /\ NoTest /\ gens = <<>>
GenNext ==
    \/ \E n \in 1..MaxGenModes : \E M \in GenMatrices(n) : \E init \in GenStates(n) :
          Invoke(n, M, init)
    \/ \E i \in 1..MaxGens : Pull(i)
SpecGen == GenInit /\ [][GenNext]_vars

(***************************************************************************)
(* The functions of bogoliubov_transform_test.py, each run on inputs drawn *)
(* from the matrices above.                                                *)
(***************************************************************************)
\* sum(1 << (n_qubits - 1 - i) for i in initial_state)
RECURSIVE EncodeOccupied_LsbFirst(_, _)
EncodeOccupied_LsbFirst(n, l) ==
    IF l = <<>> THEN 0 ELSE Pow2(Head(l)) + EncodeOccupied_LsbFirst(n, Tail(l))
RECURSIVE EncodeOccupied(_, _)
EncodeOccupied(n, l) ==
    IF l = <<>> THEN 0 ELSE Pow2(n - 1 - Head(l)) + EncodeOccupied(n, Tail(l))

TestSetup(in) ==
    /\ AnsatzIdle /\ NoGens
    /\ tpc = "setup" /\ tin = in /\ tout = [test |-> None]
TestRan(out) ==
    /\ tpc = "setup"
    /\ tpc' = "ran"
    /\ tout' = out
    /\ UNCHANGED <<ansatzVars, gens, tin>>

\* test_bogoliubov_transform_compose
TestCompose ==
    /\ tin.test = "compose"
    /\ LET circuit1 == FromOps(tin.n, tin.u, NoState) \o FromOps(tin.n, tin.v, NoState)
           circuit2 == FromOps(tin.n, Dot(tin.u, tin.v), NoState)
       IN  TestRan([test |-> "compose", circuit1 |-> circuit1, circuit2 |-> circuit2,
                    unitary1 |-> CircuitUnitary(tin.n, circuit1),
                    unitary2 |-> CircuitUnitary(tin.n, circuit2)])
ComposeInit ==
    \E n \in 1..MaxModes : \E u, v \in UnitaryMatrices(n) :
        TestSetup([test |-> "compose", n |-> n, u |-> u, v |-> v])
SpecCompose == ComposeInit /\ [][TestCompose]_vars

\* test_bogoliubov_transform_fourier_transform_inverse_is_dagger and
\* test_bogoliubov_transform_quadratic_hamiltonian_inverse_is_dagger
TestInverseIsDagger ==
    /\ tin.test = "dagger"
    /\ LET circuit1 == InverseOps(FromOps(tin.n, tin.m, NoState))
           circuit2 == FromOps(tin.n, Daggered(tin.m, tin.n), NoState)
       IN  TestRan([test |-> "dagger", circuit1 |-> circuit1, circuit2 |-> circuit2,
                    unitary1 |-> CircuitUnitary(tin.n, circuit1),
                    unitary2 |-> CircuitUnitary(tin.n, circuit2)])
DaggerInit ==
    \E n \in 1..MaxModes : \E m \in ValidMatrices(n) :
        TestSetup([test |-> "dagger", n |-> n, m |-> m])
SpecDagger == DaggerInit /\ [][TestInverseIsDagger]_vars

\* test_bogoliubov_transform_quadratic_hamiltonian: for a subset of occupied
\* orbitals, the general circuit and the special circuit on the basis state.
TestSpecialCircuit ==
    /\ tin.test = "special"
    /\ LET initial_state == EncodeOccupied(tin.n, tin.occupied)
           general == FromOps(tin.n, tin.m, NoState)
           special == FromOps(tin.n, tin.m, IntState(initial_state))
           ket == Ket(OccupiedModes(tin.n, initial_state), 0)
       IN  TestRan([test |-> "special", initial_state |-> initial_state,
                    circuit |-> general, special_circuit |-> special,
                    state1 |-> Run(general, ket), state2 |-> Run(special, ket)])
DistinctLists(n) == {l \in SeqsUpTo(Modes(n), n) : \A i, j \in 1..Len(l) : i # j => l[i] # l[j]}
SpecialInit ==
    \E n \in 1..MaxModes : \E m \in ValidMatrices(n) : \E l \in DistinctLists(n) :
        TestSetup([test |-> "special", n |-> n, m |-> m, occupied |-> l])
SpecSpecial == SpecialInit /\ [][TestSpecialCircuit]_vars

\* test_bogoliubov_transform_fourier_transform: the circuit for a collection of
\* occupied modes, the integer the test converts the collection to, and the
\* circuit for that integer.
TestInitialStateForms ==
    /\ tin.test = "forms"
    /\ LET encoded == EncodeOccupied(tin.n, tin.occupied) IN
       TestRan([test |-> "forms", encoded |-> encoded,
                circuit |-> FromOps(tin.n, tin.m, ListState(tin.occupied)),
                int_circuit |-> FromOps(tin.n, tin.m, IntState(encoded))])
FormsInit ==
    \E n \in 1..MaxModes : \E m \in ValidMatrices(n) : \E l \in SeqsUpTo(Modes(n), n) :
        TestSetup([test |-> "forms", n |-> n, m |-> m, occupied |-> l])
SpecForms == FormsInit /\ [][TestInitialStateForms]_vars

(***************************************************************************)
(* Claims about VariationalAnsatz, checked under SpecAnsatz.               *)
(***************************************************************************)
Distinct(ns) == \A i, j \in 1..Len(ns) : i # j => ns[i] # ns[j]
Count(s, x) == Cardinality({i \in 1..Len(s) : s[i] = x})
FullyPopulated(p) ==
    /\ p.set
    /\ DOMAIN p.val = Range(names)
    /\ \A k \in DOMAIN p.val : p.val[k] = Symbol(k)

\* C7: __init__ calls param_names() and assigns the fully populated params
\* mapping before it calls generate_circuit(), and it calls generate_circuit()
\* exactly once; generate_circuit() never finds params missing or partial.
C7_PopulatedBeforeGenerate ==
    /\ Count(ctorCalls, "generate_circuit") <= 1
    /\ Count(ctorCalls, "generate_circuit") = 1 =>
          /\ ctorCalls = <<"param_names", "generate_circuit">>
          /\ FullyPopulated(seen)
          /\ circuit.set /\ circuit.val.error = None
    /\ apc = "constructed" => Count(ctorCalls, "generate_circuit") = 1
C7_Witness ==
    /\ apc = "constructed"
    /\ Len(names) >= 2 /\ names[1] # names[2]
    /\ Len(circuit.val.ops) = Len(names)

\* C8: once constructed, params has exactly the names of param_names() as keys,
\* each bound to the Symbol of that name, and no call of param_names,
\* param_bounds, param_resolver or default_initial_params changes params or
\* replaces the circuit.
C8_ParamsFixed ==
    /\ [](apc = "constructed" => FullyPopulated(params))
    /\ [][apc = "constructed" => (params' = params /\ circuit' = circuit)]_vars
C8_Witness ==
    /\ apc = "constructed"
    /\ ret.op = "param_resolver"
    /\ Len(names) >= 2 /\ Len(ret.arg) = Len(names)
    /\ FullyPopulated(params)

C1_BadShapeRaisesOnFirstPull ==
    \A i \in 1..Len(gens) :
        LET g == gens[i] IN
        (Shape(g.M) # <<g.n, g.n>> /\ Shape(g.M) # <<g.n, 2 * g.n>>) =>
            /\ g.yielded = <<>>
            /\ g.pulled => (g.st = "raised" /\ g.err = "ValueError")
            /\ ~g.pulled => (g.st = "created" /\ g.err = None)
C1_Witness ==
    \E i, j \in 1..Len(gens) :
        /\ gens[i].n = 2 /\ Shape(gens[i].M) = <<2, 3>> /\ gens[i].M # ZeroMatrix(2, 3)
        /\ gens[i].st = "raised" /\ gens[i].err = "ValueError"
        /\ gens[j].n = 2 /\ gens[j].M = LeftBlock(gens[i].M, 2)
        /\ gens[j].yielded # <<>>

SameInputs(a, b) ==
    /\ a.n = b.n /\ a.init = b.init
    /\ Shape(a.M) = Shape(b.M) /\ a.M = b.M
C6_CollectionIsEncodedInteger ==
    (tpc = "ran" /\ tin.test = "forms" /\ Distinct(tin.occupied)) =>
        /\ tout.encoded \in 0..(Pow2(tin.n) - 1)
        /\ OccupiedModes(tin.n, tout.encoded) = Range(tin.occupied)
        /\ tout.circuit = tout.int_circuit
C6_Witness ==
    /\ tpc = "ran" /\ tin.test = "forms"
    /\ tin.n = 3 /\ tin.occupied = <<2, 0>> /\ tout.encoded = 5
    /\ Len(tout.circuit) >= 2
    /\ tout.circuit = tout.int_circuit
    /\ tout.circuit # FromOps(tin.n, tin.m, NoState)

====
